---- MODULE Spec2Model ----
(***************************************************************************)
(* struct-validation: ValidationError, the validate! helper, the Validate  *)
(* capability and the implementation that #[derive(Validate)] generates.   *)
(*                                                                         *)
(* A text whose content the code builds or inspects (a field path, an      *)
(* identifier) is a sequence of one-character strings, so that             *)
(* format!("{}.{}", prefix, field) is a real concatenation around a "."    *)
(* character.  A message is only ever copied, and is a plain string.       *)
(***************************************************************************)
EXTENDS Naturals, Sequences, FiniteSets

VARIABLES
    error,      \* the ValidationError under construction: [field, message]
    created,    \* history: the arguments of the ValidationError::new call that made it
    prefixes,   \* history: the prefixes passed to add_prefix since, oldest first
    errors,     \* the Vec<ValidationError> the validate! helper pushes onto
    last,       \* history: the last validate! invocation and the Vec before it
    input,      \* the DeriveInput handed to derive_validate
    output,     \* the TokenStream derive_validate returned for it
    value,      \* the value a caller validates
    result,     \* the Vec the last validate call on value returned
    calls       \* the validate calls made on value since it was last built or changed

vars == <<error, created, prefixes, errors, last, input, output, value, result, calls>>

----------------------------------------------------------------------------
(* Bounds of the model *)

MaxPrefixes == 2
MaxErrors == 2
MaxFields == 2
MaxNodes == 3
MaxCalls == 2

----------------------------------------------------------------------------
(* Texts *)

Dot == <<".">>
Empty == <<>>

username == <<"u", "s", "e", "r", "n", "a", "m", "e">>
email == <<"e", "m", "a", "i", "l">>
inner == <<"i", "n", "n", "e", "r">>
value_ == <<"v", "a", "l", "u", "e">>
rule == <<"r", "u", "l", "e">>
f == <<"f">>
p == <<"p">>
q == <<"q">>

\* Declared member names: Rust identifiers, never empty.
Idents == {username, email, inner, value_}

\* Field names a check may pass to ValidationError::new (any &str).
FieldNames == {Empty, f, rule, <<"a", ".", "b">>}

\* Prefixes a caller may pass to add_prefix (any &str).
Prefixes == {Empty, p, q, Dot, <<"u", "s", "e", "r">>}

Messages == {"bad", "must not be empty"}

----------------------------------------------------------------------------
(* struct-validation-core *)

\* ValidationError::new: both arguments stored verbatim.
new(field, message) == [field |-> field, message |-> message]

\* Variants of add_prefix: the prefix put after the field; a separator put first too.
add_prefix_appending(self, prefix) ==
    [self EXCEPT !.field = self.field \o Dot \o prefix]

add_prefix_leading(self, prefix) ==
    [self EXCEPT !.field = Dot \o prefix \o Dot \o self.field]

\* ValidationError::add_prefix: self.field = format!("{}.{}", prefix, self.field).
add_prefix(self, prefix) ==
    [self EXCEPT !.field = prefix \o Dot \o self.field]

\* Variant of validate!: the test inverted.
validate_macro_inverted(vec, test, field_name, message) ==
    IF test THEN vec ELSE Append(vec, new(field_name, message))

\* validate!(vec, test, field_name, message): if test { vec.push(new(..)) }.
validate_macro(vec, test, field_name, message) ==
    IF test THEN Append(vec, new(field_name, message)) ELSE vec

----------------------------------------------------------------------------
(* Values that implement Validate *)

\* A leaf type implements Validate by hand, as the documentation examples do:
\* one check per rule, in this order, each pushing ValidationError::new(field,
\* message) when its test is true.  The field a leaf passes is any &str.
Rules == <<
    [field_name |-> rule, message |-> "bad"],
    [field_name |-> Empty, message |-> "must not be empty"] >>

\* A leaf value: tests[i] tells whether the value fails rule i.
Leaf(tests) == [kind |-> "leaf", tests |-> tests, members |-> <<>>]

\* A struct value with named members, in declaration order.
Struct(members) == [kind |-> "struct", tests |-> <<>>, members |-> members]

Member(name, member) == [name |-> name, value |-> member]

Leaves == {Leaf(tests) : tests \in [1..Len(Rules) -> BOOLEAN]}

RECURSIVE Nodes(_)
\* The number of members of a value, those of its members included.
Nodes(v) ==
    IF v.members = <<>> THEN 0
    ELSE 1 + Nodes(Head(v.members).value) + Nodes(Struct(Tail(v.members)))

Names(v) == {v.members[i].name : i \in 1..Len(v.members)}

\* self.#field_name
FieldOf(self, field_name) ==
    (CHOOSE m \in {self.members[i] : i \in 1..Len(self.members)} : m.name = field_name).value

RECURSIVE LeafChecks(_, _, _)
\* The body of a hand-written validate: rules i.. of the leaf, pushed onto vec.
LeafChecks(self, i, vec) ==
    IF i > Len(Rules) THEN vec
    ELSE LeafChecks(self, i + 1,
            validate_macro(vec, self.tests[i], Rules[i].field_name, Rules[i].message))

----------------------------------------------------------------------------
(* struct-validation-derive *)

\* What derive_validate reads of a DeriveInput: the item's name, its kind of data,
\* the kind of fields of a struct and the named fields' identifiers, in order.
\* Identifiers are plain (not raw) identifiers; Ident::to_string gives their text.
DeriveInput(ident, data, fields, named, arity) ==
    [ident |-> ident, data |-> data, fields |-> fields, named |-> named, arity |-> arity]

to_string(ident) == ident

\* Error::new_spanned(struct_name, msg).to_compile_error().into(): the only item returned.
compile_error(struct_name, msg) ==
    << [item |-> "compile_error", message |-> msg, struct_name |-> struct_name, stream |-> <<>>] >>

\* quote! { impl Validate for #struct_name { fn validate(&self) -> Vec<..> { #stream.collect() } } }
expanded(struct_name, stream) ==
    << [item |-> "impl Validate", message |-> "", struct_name |-> struct_name, stream |-> stream] >>

\* fields.iter().map(|field| ..): one iterator expression per field, in order.
validator_iters(fields) ==
    [i \in 1..Len(fields) |->
        [field_name |-> fields[i], field_name_str |-> to_string(fields[i])]]

\* Variant of chain: the operands the other way round.
chain_swapped(acc, stream) == <<stream>> \o acc

\* quote! { #acc.chain(#stream) }: the iterators of acc, then stream.
chain(acc, stream) == acc \o <<stream>>

RECURSIVE fold(_, _)
fold(acc, iters) ==
    IF iters = <<>> THEN acc ELSE fold(chain(acc, Head(iters)), Tail(iters))

\* Variant of reduce: the first iterator alone, nothing chained to it.
reduce_first(iters) ==
    IF iters = <<>> THEN <<>> ELSE <<Head(iters)>>

\* validator_iters.reduce(..).unwrap_or_else(|| quote! { std::iter::empty() }):
\* the chain of all the iterators, or the empty iterator when there is no field.
reduce(iters) ==
    IF iters = <<>> THEN <<>> ELSE fold(<<Head(iters)>>, Tail(iters))

\* Variant of derive_validate: the kind of fields of a struct is not looked at.
derive_validate_any_struct(in) ==
    IF in.data = "Struct"
    THEN expanded(in.ident, reduce(validator_iters(in.named)))
    ELSE compile_error(in.ident, "Validate can only be derived for structs")

derive_validate(in) ==
    IF in.data = "Struct"
    THEN IF in.fields = "Named"
         THEN expanded(in.ident, reduce(validator_iters(in.named)))
         ELSE compile_error(in.ident,
                  "Validate can only be derived for structs with named fields")
    ELSE compile_error(in.ident, "Validate can only be derived for structs")

\* The declaration of a struct value's type, as derive_validate receives it.
DeclarationOf(self) ==
    DeriveInput(<<"S">>, "Struct", "Named",
                [i \in 1..Len(self.members) |-> self.members[i].name], 0)

RECURSIVE validate(_)
RECURSIVE collect(_, _)

\* Variants of the member iterator: a member that is itself a derived struct is
\* passed through without its segment; no error is prefixed at all.
member_iter_skipping(self, it) ==
    LET es == validate(FieldOf(self, it.field_name))
    IN  IF FieldOf(self, it.field_name).kind = "struct" THEN es
        ELSE [i \in 1..Len(es) |-> add_prefix(es[i], it.field_name_str)]

member_iter_unprefixed(self, it) == validate(FieldOf(self, it.field_name))

\* self.#field_name.validate().into_iter().map(|mut e| { e.add_prefix(#field_name_str); e })
member_iter(self, it) ==
    LET es == validate(FieldOf(self, it.field_name))
    IN  [i \in 1..Len(es) |-> add_prefix(es[i], it.field_name_str)]

\* #stream.collect(): the items of the chained iterators, in chain order.
collect(stream, self) ==
    IF stream = <<>> THEN <<>>
    ELSE member_iter(self, Head(stream)) \o collect(Tail(stream), self)

\* Validate::validate: a leaf's hand-written checks, or the generated implementation.
validate(self) ==
    IF self.kind = "leaf"
    THEN LeafChecks(self, 1, <<>>)
    ELSE collect(derive_validate(DeclarationOf(self))[1].stream, self)

----------------------------------------------------------------------------
(* Placeholders of the parts a specification does not exercise *)

NoInput == [ident |-> Empty, data |-> "Struct", fields |-> "Unit", named |-> <<>>, arity |-> 0]
NoOutput == <<>>
NoValue == Struct(<<>>)
NoLast == [test |-> FALSE, field_name |-> Empty, message |-> "", before |-> <<>>]

----------------------------------------------------------------------------
(* Specification Spec: a ValidationError is made and prefixed *)

Init ==
    /\ \E field \in FieldNames, message \in Messages :
          /\ error = new(field, message)
          /\ created = [field |-> field, message |-> message]
    /\ prefixes = <<>>
    /\ errors = <<>>
    /\ last = NoLast
    /\ input = NoInput
    /\ output = NoOutput
    /\ value = NoValue
    /\ result = <<>>
    /\ calls = 0

New ==
    \E field \in FieldNames, message \in Messages :
        /\ error' = new(field, message)
        /\ created' = [field |-> field, message |-> message]
        /\ prefixes' = <<>>
        /\ UNCHANGED <<errors, last, input, output, value, result, calls>>

AddPrefix ==
    \E prefix \in Prefixes :
        /\ Len(prefixes) < MaxPrefixes
        /\ error' = add_prefix(error, prefix)
        /\ prefixes' = Append(prefixes, prefix)
        /\ UNCHANGED <<created, errors, last, input, output, value, result, calls>>

Next == New \/ AddPrefix

Spec == Init /\ [][Next]_vars

----------------------------------------------------------------------------
(* Specification SpecMacro: validate! is invoked on an accumulating Vec *)

InitMacro ==
    /\ error = new(Empty, "bad")
    /\ created = new(Empty, "bad")
    /\ prefixes = <<>>
    /\ errors = <<>>
    /\ last = NoLast
    /\ input = NoInput
    /\ output = NoOutput
    /\ value = NoValue
    /\ result = <<>>
    /\ calls = 0

ValidateMacro ==
    \E test \in BOOLEAN, field_name \in FieldNames, message \in Messages :
        /\ Len(errors) < MaxErrors
        /\ errors' = validate_macro(errors, test, field_name, message)
        /\ last' = [test |-> test, field_name |-> field_name, message |-> message,
                    before |-> errors]
        /\ UNCHANGED <<error, created, prefixes, input, output, value, result, calls>>

NextMacro == ValidateMacro

SpecMacro == InitMacro /\ [][NextMacro]_vars

----------------------------------------------------------------------------
(* Specification SpecDerive: #[derive(Validate)] is applied to an item *)

NamedFields ==
    {fs \in UNION {[1..n -> Idents] : n \in 0..MaxFields} :
        \A i, j \in 1..Len(fs) : i # j => fs[i] # fs[j]}

ItemNames == {<<"U", "s", "e", "r">>, <<"O", "u", "t", "e", "r">>}

\* The items #[derive] can be written on: structs with named fields (possibly
\* none), tuple structs, unit structs, enums and unions.
DeriveInputs ==
    UNION {
        {DeriveInput(id, "Struct", "Named", fs, Len(fs)) : fs \in NamedFields}
        \cup {DeriveInput(id, "Struct", "Unnamed", <<>>, n) : n \in 0..MaxFields}
        \cup {DeriveInput(id, "Struct", "Unit", <<>>, 0)}
        \cup {DeriveInput(id, "Enum", "None", <<>>, n) : n \in 0..MaxFields}
        \cup {DeriveInput(id, "Union", "None", fs, Len(fs)) : fs \in NamedFields \ {<<>>}}
        : id \in ItemNames}

InitDerive ==
    /\ error = new(Empty, "bad")
    /\ created = new(Empty, "bad")
    /\ prefixes = <<>>
    /\ errors = <<>>
    /\ last = NoLast
    /\ input \in DeriveInputs
    /\ output = NoOutput
    /\ value = NoValue
    /\ result = <<>>
    /\ calls = 0

DeriveValidate ==
    /\ output = NoOutput
    /\ output' = derive_validate(input)
    /\ UNCHANGED <<error, created, prefixes, errors, last, input, value, result, calls>>

NextDerive == DeriveValidate

SpecDerive == InitDerive /\ [][NextDerive]_vars

----------------------------------------------------------------------------
(* Specification SpecValidate: a value is built, then validated *)

InitValidate ==
    /\ error = new(Empty, "bad")
    /\ created = new(Empty, "bad")
    /\ prefixes = <<>>
    /\ errors = <<>>
    /\ last = NoLast
    /\ input = NoInput
    /\ output = NoOutput
    /\ value \in Leaves \cup {Struct(<<>>)}
    /\ result = <<>>
    /\ calls = 0

\* The value becomes the only member, called name, of a new struct value.
Wrap ==
    \E name \in Idents :
        /\ Nodes(value) < MaxNodes
        /\ value' = Struct(<<Member(name, value)>>)
        /\ result' = <<>>
        /\ calls' = 0
        /\ UNCHANGED <<error, created, prefixes, errors, last, input, output>>

\* A struct value gets one more leaf member, declared first or last.
AddMember ==
    \E name \in Idents \ Names(value), leaf \in Leaves, first \in BOOLEAN :
        /\ value.kind = "struct"
        /\ Nodes(value) < MaxNodes
        /\ value' = Struct(IF first THEN <<Member(name, leaf)>> \o value.members
                                    ELSE Append(value.members, Member(name, leaf)))
        /\ result' = <<>>
        /\ calls' = 0
        /\ UNCHANGED <<error, created, prefixes, errors, last, input, output>>

\* Variant of the call: validate takes the errors out of the value it reports on.
CallValidate_draining ==
    /\ calls < MaxCalls
    /\ result' = validate(value)
    /\ calls' = calls + 1
    /\ value' = IF value.kind = "leaf" THEN Leaf([i \in 1..Len(Rules) |-> FALSE])
                ELSE Struct(<<>>)
    /\ UNCHANGED <<error, created, prefixes, errors, last, input, output>>

\* let errors = value.validate();
CallValidate ==
    /\ calls < MaxCalls
    /\ result' = validate(value)
    /\ calls' = calls + 1
    /\ UNCHANGED <<error, created, prefixes, errors, last, input, output, value>>

NextValidate == Wrap \/ AddMember \/ CallValidate

SpecValidate == InitValidate /\ [][NextValidate]_vars

----------------------------------------------------------------------------
(* Properties of ValidationError (specification Spec) *)

StartsWithDot(text) == text # Empty /\ Head(text) = "."

\* C3: add_prefix(p) with a non-empty p leaves field = p + "." + f and the message
\* unchanged; add_prefix(p) and then add_prefix(q) leave field = q + "." + p + "." + f.
ThmC3 ==
    /\ (Len(prefixes) = 1 /\ prefixes[1] # Empty) =>
          /\ error.field = prefixes[1] \o <<".">> \o created.field
          /\ error.message = created.message
    /\ (Len(prefixes) = 2 /\ prefixes[1] # Empty /\ prefixes[2] # Empty) =>
          /\ error.field = prefixes[2] \o <<".">> \o prefixes[1] \o <<".">> \o created.field
          /\ error.message = created.message

WitC3 ==
    /\ created.field = f
    /\ prefixes = <<p, q>>
    /\ error.field = <<"q", ".", "p", ".", "f">>

\* C8 as stated: add_prefix is never rejected (it returns nothing and cannot fail),
\* so after every call, one with an empty prefix included, the field does not
\* start with a dot.
ClaimC8 == Len(prefixes) >= 1 => ~StartsWithDot(error.field)

\* C8 amended: after add_prefix with a non-empty prefix that does not itself start
\* with a dot, the field does not start with a dot; an empty prefix is accepted
\* and leaves "." + the old field.
ThmC8 ==
    /\ (Len(prefixes) >= 1
          /\ prefixes[Len(prefixes)] # Empty
          /\ ~StartsWithDot(prefixes[Len(prefixes)]))
       => ~StartsWithDot(error.field)
    /\ (Len(prefixes) = 1 /\ prefixes[1] = Empty)
       => error.field = <<".">> \o created.field

WitC8 ==
    /\ Len(prefixes) = 2
    /\ prefixes[1] = Empty
    /\ prefixes[2] = p
    /\ created.field = Empty
    /\ error.field = <<"p", ".", ".">>

----------------------------------------------------------------------------
(* Properties of validate! (specification SpecMacro) *)

\* C7: validate!(vec, test, field, message) appends exactly one ValidationError
\* {field, message} at the end of vec when test is true and leaves vec unchanged
\* when test is false; the errors already in vec keep their values and order.
ThmC7 ==
    /\ \A i \in 1..Len(last.before) :
          i <= Len(errors) /\ errors[i] = last.before[i]
    /\ last.test =>
          /\ Len(errors) = Len(last.before) + 1
          /\ errors[Len(errors)].field = last.field_name
          /\ errors[Len(errors)].message = last.message
    /\ ~last.test => Len(errors) = Len(last.before)

WitC7 ==
    /\ last.test
    /\ Len(last.before) = 1
    /\ Len(errors) = 2
    /\ errors[1] # errors[2]

----------------------------------------------------------------------------
(* Properties of derive_validate (specification SpecDerive) *)

IsNamedStruct(in) == in.data = "Struct" /\ in.fields = "Named"

Items(out) == {out[i].item : i \in 1..Len(out)}

\* C9: for an enum, a union, a tuple struct or a unit struct the derive returns a
\* compile error and no Validate implementation; for a struct with named fields,
\* one with no field included, it returns an implementation and no error.
ThmC9 ==
    output # NoOutput =>
        IF IsNamedStruct(input)
        THEN /\ Items(output) = {"impl Validate"}
             /\ \A i \in 1..Len(output) :
                   /\ output[i].struct_name = input.ident
                   /\ Len(output[i].stream) = Len(input.named)
        ELSE Items(output) = {"compile_error"}

WitC9 ==
    /\ input.data = "Struct"
    /\ input.fields = "Unnamed"
    /\ input.arity = 2
    /\ Items(output) = {"compile_error"}

----------------------------------------------------------------------------
(* Properties of the derived validate (specification SpecValidate) *)

Validated == calls >= 1

\* The member's own validate result.
OwnResult(i) == validate(value.members[i].value)

RECURSIVE Offset(_)
\* The number of errors the members before member i report.
Offset(i) == IF i <= 1 THEN 0 ELSE Offset(i - 1) + Len(OwnResult(i - 1))

\* C1: the derived validate returns E_1' ++ ... ++ E_n' in declaration order, E_i'
\* being member i's own result with every error prefixed by the member's declared
\* name, in its original order: nothing dropped, duplicated or reordered.
ThmC1 ==
    (Validated /\ value.kind = "struct") =>
        /\ Len(result) = Offset(Len(value.members) + 1)
        /\ \A i \in 1..Len(value.members) :
              \A j \in 1..Len(OwnResult(i)) :
                 /\ result[Offset(i) + j].field =
                       value.members[i].name \o <<".">> \o OwnResult(i)[j].field
                 /\ result[Offset(i) + j].message = OwnResult(i)[j].message

WitC1 ==
    /\ Validated
    /\ value.kind = "struct"
    /\ Len(value.members) = 2
    /\ Len(OwnResult(1)) = 2
    /\ value.members[2].value.kind = "struct"
    /\ Len(OwnResult(2)) = 1
    /\ Len(result) = 3

IsUser(v) ==
    /\ v.kind = "struct"
    /\ Len(v.members) = 2
    /\ v.members[1].name = username
    /\ v.members[2].name = email
    /\ v.members[1].value.kind = "leaf"
    /\ v.members[2].value.kind = "leaf"

\* C2: for User { username, email } over leaves that report one error when they
\* fail, two failing members give exactly two errors, in declared order, whose
\* fields are exactly "username" and "email" and whose messages are the leaves';
\* two passing members give the empty sequence.
ClaimC2 ==
    (Validated /\ IsUser(value)) =>
        /\ (Len(OwnResult(1)) = 1 /\ Len(OwnResult(2)) = 1) =>
              /\ Len(result) = 2
              /\ result[1].field = username
              /\ result[2].field = email
              /\ result[1].message = OwnResult(1)[1].message
              /\ result[2].message = OwnResult(2)[1].message
        /\ (OwnResult(1) = <<>> /\ OwnResult(2) = <<>>) => result = <<>>

RECURSIVE Expected(_, _)
\* The errors of a value's leaves, left to right, each under the path of member
\* names that leads from the root to its leaf.
Expected(v, path) ==
    IF v.kind = "leaf"
    THEN [i \in 1..Len(validate(v)) |->
            [field |-> path \o validate(v)[i].field, message |-> validate(v)[i].message]]
    ELSE IF v.members = <<>> THEN <<>>
    ELSE Expected(Head(v.members).value, path \o Head(v.members).name \o <<".">>)
            \o Expected(Struct(Tail(v.members)), path)

OuterInnerLeaf ==
    Struct(<<Member(inner, Struct(<<Member(value_, Leaf(<<TRUE, FALSE>>))>>))>>)

\* C4: every nesting level contributes exactly one leading segment, never skipped
\* and never doubled: each leaf error is reported under the root-to-leaf path of
\* member names, message unchanged; Outer { inner: Inner { value: Leaf } } with a
\* leaf error ("rule", "bad") reports exactly ("inner.value.rule", "bad").
ThmC4 ==
    Validated =>
        /\ result = Expected(value, <<>>)
        /\ value = OuterInnerLeaf =>
              result = << [field |-> <<"i", "n", "n", "e", "r", ".",
                                        "v", "a", "l", "u", "e", ".",
                                        "r", "u", "l", "e">>,
                           message |-> "bad"] >>

WitC4 ==
    /\ Validated
    /\ value = OuterInnerLeaf
    /\ Len(result) = 1

\* C5: the derived validate returns the empty sequence for a struct with no member
\* and for one whose members all pass; when exactly one member fails, the result
\* holds that member's errors alone, each under the failing member's name.
ThmC5 ==
    (Validated /\ value.kind = "struct") =>
        /\ value.members = <<>> => result = <<>>
        /\ (\A i \in 1..Len(value.members) : OwnResult(i) = <<>>) => result = <<>>
        /\ \A i \in 1..Len(value.members) :
              (/\ OwnResult(i) # <<>>
               /\ \A j \in 1..Len(value.members) : j # i => OwnResult(j) = <<>>)
              => /\ Len(result) = Len(OwnResult(i))
                 /\ \A k \in 1..Len(result) :
                       /\ result[k].field =
                             value.members[i].name \o <<".">> \o OwnResult(i)[k].field
                       /\ result[k].message = OwnResult(i)[k].message

WitC5 ==
    /\ Validated
    /\ value.kind = "struct"
    /\ Len(value.members) = 2
    /\ OwnResult(1) = <<>>
    /\ Len(OwnResult(2)) = 1
    /\ Len(result) = 1

ClaimC10 == Validated => \A i \in 1..Len(result) : result[i].field # Empty

\* C10 amended: every error the validate of a derived struct returns has a
\* non-empty field (the composition has prefixed it at least once); an error a
\* leaf made with an empty field and returns itself keeps the empty field.
ThmC10 ==
    Validated =>
        /\ value.kind = "struct" => \A i \in 1..Len(result) : result[i].field # Empty
        /\ value.kind = "leaf" =>
              \A i \in 1..Len(result) :
                 \E r \in 1..Len(Rules) :
                    result[i].field = Rules[r].field_name

WitC10 ==
    /\ Validated
    /\ value.kind = "struct"
    /\ Len(value.members) = 1
    /\ value.members[1].value = Leaf(<<FALSE, TRUE>>)
    /\ Len(result) = 1
    /\ result[1].field = value.members[1].name \o <<".">>

====
